---- MODULE Spec2Model ----
(***************************************************************************)
(* Black-Scholes pricing engine (src/blackscholes.py) and its Streamlit    *)
(* front-end (src/options_calc.py).                                        *)
(*                                                                         *)
(* Python floats are modelled as fixed-point numbers: an integer n stands  *)
(* for the real n / SCALE.  Every arithmetic step rounds to the nearest    *)
(* unit, symmetrically in the sign, as IEEE rounding does.  math.log,      *)
(* math.exp, math.sqrt and scipy's stats.norm are library code; they are   *)
(* modelled by series and rational approximations evaluated in the same    *)
(* fixed-point arithmetic.                                                 *)
(***************************************************************************)
EXTENDS Integers, Sequences, FiniteSets, TLC

\* Resolution of the fixed-point numbers: one unit is 1 / SCALE.
SCALE == 10 ^ 3

Abs(x) == IF x < 0 THEN -x ELSE x
Sgn(x) == IF x < 0 THEN -1 ELSE IF x = 0 THEN 0 ELSE 1

\* The arithmetic is written as functions of integers, so that an operand is
\* evaluated once, before the operation, as Python evaluates it.

\* n / d for an integer d > 0, rounded to the nearest integer.
RoundDiv[n \in Int, d \in Int] == Sgn(n) * ((Abs(n) + d \div 2) \div d)

\* a / b in fixed point for b # 0, rounded to the nearest unit.
Quotient[a \in Int, b \in Int] ==
    Sgn(a) * Sgn(b) * ((Abs(a) * SCALE + Abs(b) \div 2) \div Abs(b))

\* n / d as a fixed-point number, for integers n >= 0 and d > 0 (a literal
\* such as 0.05 is Lit(5, 100)).
Lit(n, d) == RoundDiv[n * SCALE, d]

\* a * b, rounded to the nearest unit.
FMul(a, b) == RoundDiv[a * b, SCALE]

\* a / b for b # 0.
FDiv(a, b) == Quotient[a, b]

\* a / n for a plain integer n > 0 (the "/ 100" and "/ 365" of the source).
FDivInt(a, n) == RoundDiv[a, n]

(***************************************************************************)
(* Library functions.                                                      *)
(***************************************************************************)

\* The largest r in lo..hi with r * r <= n (lo * lo <= n assumed).
SqrtSearch[n \in Int, lo \in Int, hi \in Int] ==
    IF lo >= hi THEN lo
    ELSE IF ((lo + hi + 1) \div 2) * ((lo + hi + 1) \div 2) <= n
    THEN SqrtSearch[n, (lo + hi + 1) \div 2, hi]
    ELSE SqrtSearch[n, lo, (lo + hi + 1) \div 2 - 1]

\* The nearer of r and r + 1 to the square root of n, r being its floor.
SqrtRound[n \in Int, r \in Int] == IF n - r * r > r THEN r + 1 ELSE r

\* math.sqrt(x) for x >= 0.
sqrt(x) == SqrtRound[x * SCALE, SqrtSearch[x * SCALE, 0, 40000]]

\* Below ExpUnderflow the exponential rounds to zero.
ExpUnderflow == -(12 * SCALE)

\* exp on a small argument: the Taylor series to the fourth power.
ExpSeries[x \in Int] ==
    SCALE + x + FDivInt(FMul(x, x), 2) + FDivInt(FMul(FMul(x, x), x), 6)
    + FDivInt(FMul(FMul(FMul(x, x), x), x), 24)

Square[h \in Int] == FMul(h, h)

\* Halve the argument until it is small, sum the series, square back.
ExpValue[x \in Int] ==
    IF x < ExpUnderflow THEN 0
    ELSE IF Abs(x) > SCALE \div 4
    THEN Square[ExpValue[Sgn(x) * (Abs(x) \div 2)]]
    ELSE ExpSeries[x]

\* math.exp(x).
exp(x) == ExpValue[x]

\* 2 atanh(z) = ln((1 + z) / (1 - z)), to the fifth power of z.
AtanhSeries[z \in Int] ==
    2 * (z + FDivInt(FMul(FMul(z, z), z), 3)
           + FDivInt(FMul(FMul(FMul(FMul(z, z), z), z), z), 5))

\* ln x for x > 0: powers of two are taken out until SCALE <= x < 2 SCALE,
\* where ln x = 2 atanh((x - 1) / (x + 1)).
LogValue[x \in Int] ==
    IF x >= 2 * SCALE THEN LogValue[FDivInt(x, 2)] + Lit(693147, 1000000)
    ELSE IF x < SCALE THEN LogValue[x * 2] - Lit(693147, 1000000)
    ELSE AtanhSeries[FDiv(x - SCALE, x + SCALE)]

\* math.log(x) for x > 0.
log(x) == LogValue[x]

\* Beyond PdfCutoff standard deviations the density underflows to zero.
PdfCutoff == 8 * SCALE

PdfValue[x \in Int] ==
    IF Abs(x) > PdfCutoff THEN 0
    ELSE FMul(exp(-FDivInt(FMul(x, x), 2)), Lit(398942, 1000000))

\* stats.norm.pdf(x) = exp(-x^2 / 2) / sqrt(2 pi).
norm_pdf(x) == PdfValue[x]

\* The polynomial of Abramowitz-Stegun 26.2.17 in t = 1 / (1 + p a).
TailPoly[t \in Int] ==
    FMul(Lit(319382, 1000000), t)
    - FMul(Lit(356564, 1000000), FMul(t, t))
    + FMul(Lit(1781478, 1000000), FMul(FMul(t, t), t))
    - FMul(Lit(1821256, 1000000), FMul(FMul(FMul(t, t), t), t))
    + FMul(Lit(1330274, 1000000), FMul(FMul(FMul(FMul(t, t), t), t), t))

\* The upper tail 1 - Phi(a) for a >= 0.
NormTail[a \in Int] ==
    FMul(norm_pdf(a),
         TailPoly[FDiv(SCALE, SCALE + FMul(Lit(231642, 1000000), a))])

\* stats.norm.cdf(x): computed on |x|, and reflected for x > 0 as scipy's
\* ndtr does, so that cdf(x) + cdf(-x) = 1.
CdfValue[x \in Int] == IF x > 0 THEN SCALE - NormTail[x] ELSE NormTail[-x]

norm_cdf(x) == CdfValue[x]

(***************************************************************************)
(* The pricing engine, src/blackscholes.py.                                *)
(***************************************************************************)

\* The option_type strings: the two the engine recognizes, and "invalid" for
\* any other string.
RecognizedTypes == {"call", "put"}
OptionTypes == RecognizedTypes \cup {"invalid"}

MsgPositive == "Must use positive numbers."
\* Mutant: the option-type rejection reuses the other message.
MsgOptionTypeSame == "Must use positive numbers."
MsgOptionType == "option_type must be 'call' or 'put'."
MsgMathDomain == "math domain error"
MsgDivision == "float division by zero"

\* An exception leaving the function.  at: the place that raised it; steps:
\* the formula steps evaluated before it.
Raise(exc, msg, at, steps) ==
    [kind |-> "raise", exc |-> exc, msg |-> msg, at |-> at, steps |-> steps]

\* Line 13.
PriceD1(S, K, T, r, sigma) ==
    FDiv(log(FDiv(S, K)) + FMul(r + FMul(Lit(1, 2), FMul(sigma, sigma)), T),
         FMul(sigma, sqrt(T)))

\* Line 14.
PriceD2(d1, T, sigma) == d1 - FMul(sigma, sqrt(T))

\* Line 17.
CallPriceFormula(S, K, T, r, d1, d2) ==
    FMul(S, norm_cdf(d1)) - FMul(FMul(K, exp(-FMul(r, T))), norm_cdf(d2))

\* Mutant: the put formula with the sign of d2 lost.
PutPriceFormulaSign(S, K, T, r, d1, d2) ==
    FMul(FMul(K, exp(-FMul(r, T))), norm_cdf(d2)) - FMul(S, norm_cdf(-d1))

\* Line 19.
PutPriceFormula(S, K, T, r, d1, d2) ==
    FMul(FMul(K, exp(-FMul(r, T))), norm_cdf(-d2)) - FMul(S, norm_cdf(-d1))

\* Mutant: the option type is not checked, and anything but "call" is
\* priced as a put.
BlackScholesNoTypeCheck(S, K, T, r, sigma, option_type) ==
    IF S <= 0 \/ K <= 0 \/ sigma <= 0 \/ T <= 0
    THEN Raise("ValueError", MsgPositive, "validation", <<>>)
    ELSE LET d1 == PriceD1(S, K, T, r, sigma)
             d2 == PriceD2(d1, T, sigma)
             price == IF option_type = "call"
                      THEN CallPriceFormula(S, K, T, r, d1, d2)
                      ELSE PutPriceFormula(S, K, T, r, d1, d2)
         IN  [kind |-> "return", value |-> price, d1 |-> d1, d2 |-> d2,
              steps |-> <<"d1", "d2", "price">>]

\* Lines 5-21.
BlackScholes(S, K, T, r, sigma, option_type) ==
    IF S <= 0 \/ K <= 0 \/ sigma <= 0 \/ T <= 0
    THEN Raise("ValueError", MsgPositive, "validation", <<>>)
    ELSE IF option_type \notin {"call", "put"}
    THEN Raise("ValueError", MsgOptionType, "validation", <<>>)
    ELSE LET d1 == PriceD1(S, K, T, r, sigma)
             d2 == PriceD2(d1, T, sigma)
             price == IF option_type = "call"
                      THEN CallPriceFormula(S, K, T, r, d1, d2)
                      ELSE PutPriceFormula(S, K, T, r, d1, d2)
         IN  [kind |-> "return", value |-> price, d1 |-> d1, d2 |-> d2,
              steps |-> <<"d1", "d2", "price">>]

\* Mutant: d1 with the variance term subtracted.
GreeksD1Drift(S, K, T, r, sigma) ==
    IF K = 0 THEN Raise("ZeroDivisionError", MsgDivision, "d1", <<>>)
    ELSE IF FDiv(S, K) <= 0 THEN Raise("ValueError", MsgMathDomain, "d1", <<>>)
    ELSE IF T < 0 THEN Raise("ValueError", MsgMathDomain, "d1", <<>>)
    ELSE IF FMul(sigma, sqrt(T)) = 0
    THEN Raise("ZeroDivisionError", MsgDivision, "d1", <<>>)
    ELSE [kind |-> "return",
          value |-> FDiv(log(FDiv(S, K))
                         + FMul(r - FMul(Lit(1, 2), FMul(sigma, sigma)), T),
                         FMul(sigma, sqrt(T)))]

\* Line 43.  Nothing is validated first, so the expression raises what
\* Python raises: S / K with K = 0 and the final division by sigma * sqrt(T)
\* = 0 raise ZeroDivisionError; log of a quotient <= 0 and sqrt of T < 0
\* raise ValueError("math domain error").  Operands are evaluated left to
\* right.
GreeksD1(S, K, T, r, sigma) ==
    IF K = 0 THEN Raise("ZeroDivisionError", MsgDivision, "d1", <<>>)
    ELSE IF FDiv(S, K) <= 0 THEN Raise("ValueError", MsgMathDomain, "d1", <<>>)
    ELSE IF T < 0 THEN Raise("ValueError", MsgMathDomain, "d1", <<>>)
    ELSE IF FMul(sigma, sqrt(T)) = 0
    THEN Raise("ZeroDivisionError", MsgDivision, "d1", <<>>)
    ELSE [kind |-> "return",
          value |-> FDiv(log(FDiv(S, K))
                         + FMul(r + FMul(Lit(1, 2), FMul(sigma, sigma)), T),
                         FMul(sigma, sqrt(T)))]

\* Line 44.
GreeksD2(d1, T, sigma) == d1 - FMul(sigma, sqrt(T))

\* Mutant: the put delta as 1 - cdf(d1).
DeltaPutSign(option_type, d1) ==
    IF option_type = "call" THEN norm_cdf(d1) ELSE SCALE - norm_cdf(d1)

\* Lines 47-50.
Delta(option_type, d1) ==
    IF option_type = "call" THEN norm_cdf(d1) ELSE norm_cdf(d1) - SCALE

\* Mutant: gamma negated for a put.
GammaByType(option_type, S, T, sigma, d1) ==
    IF option_type = "call"
    THEN FDiv(norm_pdf(d1), FMul(FMul(S, sigma), sqrt(T)))
    ELSE -FDiv(norm_pdf(d1), FMul(FMul(S, sigma), sqrt(T)))

\* Line 53.
Gamma(option_type, S, T, sigma, d1) ==
    FDiv(norm_pdf(d1), FMul(FMul(S, sigma), sqrt(T)))

\* Line 56.
Vega(option_type, S, T, d1) ==
    FDivInt(FMul(FMul(S, norm_pdf(d1)), sqrt(T)), 100)

\* Lines 59-63.
Theta(option_type, S, K, T, r, sigma, d1, d2) ==
    LET decay == FDiv(FMul(FMul(-S, norm_pdf(d1)), sigma), 2 * sqrt(T))
        carry == FMul(FMul(r, K), exp(-FMul(r, T)))
    IN  IF option_type = "call"
        THEN FDivInt(decay - FMul(carry, norm_cdf(d2)), 365)
        ELSE FDivInt(decay + FMul(carry, norm_cdf(-d2)), 365)

\* Lines 66-69.
Rho(option_type, K, T, r, d2) ==
    IF option_type = "call"
    THEN FDivInt(FMul(FMul(FMul(K, T), exp(-FMul(r, T))), norm_cdf(d2)), 100)
    ELSE FDivInt(FMul(FMul(FMul(-K, T), exp(-FMul(r, T))), norm_cdf(-d2)), 100)

\* Lines 41-77.
calculate_greeks(S, K, T, r, sigma, option_type) ==
    LET e1 == GreeksD1(S, K, T, r, sigma)
    IN  IF e1.kind = "raise" THEN e1
        ELSE LET d1 == e1.value
                 d2 == GreeksD2(d1, T, sigma)
             IN  [kind |-> "return",
                  value |-> [delta |-> Delta(option_type, d1),
                             gamma |-> Gamma(option_type, S, T, sigma, d1),
                             theta |-> Theta(option_type, S, K, T, r, sigma, d1, d2),
                             vega |-> Vega(option_type, S, T, d1),
                             rho |-> Rho(option_type, K, T, r, d2)],
                  d1 |-> d1, d2 |-> d2,
                  steps |-> <<"d1", "d2", "delta", "gamma", "vega", "theta", "rho">>]

(***************************************************************************)
(* A caller of the engine.  It holds one set of arguments and calls price  *)
(* and greeks with them, for any option type, in any order; the results    *)
(* of the calls made with the current arguments are kept.  It may then     *)
(* move on to other arguments, keeping of the past only one rejection by   *)
(* price: the constraints that input violated and the reason reported.     *)
(* (A second move would overwrite that rejection and reach no state the    *)
(* first move does not reach, so NewArgs is taken once.)                   *)
(***************************************************************************)

VARIABLES
    args,       \* the current arguments [S, K, T, r, sigma]
    priceOut,   \* option type -> outcome of BlackScholes, or NoCall
    greeksOut,  \* option type -> outcome of calculate_greeks, or NoCall
    earlier,    \* a rejection by price under earlier arguments, or NoCall
    ui          \* the front-end's page run

NoCall == [kind |-> "none"]

SpotInputs == {-(100 * SCALE), 0, 90 * SCALE, 100 * SCALE, 120 * SCALE}
StrikeInputs == {-(5 * SCALE), 0, 100 * SCALE}
TimeInputs == {-SCALE, 0, Lit(1, 4), SCALE}
RateInputs == {-Lit(2, 100), 0, Lit(5, 100)}
VolInputs == {-Lit(2, 10), 0, Lit(2, 10), Lit(5, 10)}

ArgSpace ==
    [S : SpotInputs, K : StrikeInputs, T : TimeInputs, r : RateInputs,
     sigma : VolInputs]

\* The constraints of lines 8 and 10 that an input violates.
Violated(a, ty) ==
    (IF a.S <= 0 THEN {"spot"} ELSE {})
    \cup (IF a.K <= 0 THEN {"strike"} ELSE {})
    \cup (IF a.sigma <= 0 THEN {"volatility"} ELSE {})
    \cup (IF a.T <= 0 THEN {"time"} ELSE {})
    \cup (IF ty \notin RecognizedTypes THEN {"type"} ELSE {})

Valid(a, ty) == Violated(a, ty) = {}

NoCalls == [t \in OptionTypes |-> NoCall]

UiIdle == [page |-> "none", status |-> "idle"]

InitEngine ==
    /\ args \in ArgSpace
    /\ priceOut = NoCalls
    /\ greeksOut = NoCalls
    /\ earlier = NoCall
    /\ ui = UiIdle

CallPrice(ty) ==
    /\ priceOut' = [priceOut EXCEPT ![ty] =
            BlackScholes(args.S, args.K, args.T, args.r, args.sigma, ty)]
    /\ UNCHANGED <<args, greeksOut, earlier, ui>>

CallGreeks(ty) ==
    /\ greeksOut' = [greeksOut EXCEPT ![ty] =
            calculate_greeks(args.S, args.K, args.T, args.r, args.sigma, ty)]
    /\ UNCHANGED <<args, priceOut, earlier, ui>>

\* Arguments of the callers that move from one set of arguments to another.
RejectSpace ==
    [S : {0, 100 * SCALE}, K : {-(5 * SCALE), 100 * SCALE}, T : {0, SCALE},
     r : {Lit(5, 100)}, sigma : {0, Lit(2, 10)}]

InitReject ==
    /\ args \in RejectSpace
    /\ priceOut = NoCalls
    /\ greeksOut = NoCalls
    /\ earlier = NoCall
    /\ ui = UiIdle

NewArgs(a, ty) ==
    /\ earlier = NoCall
    /\ priceOut[ty].kind = "raise"
    /\ a # args
    /\ earlier' = [kind |-> "rejected", violated |-> Violated(args, ty),
                   exc |-> priceOut[ty].exc, msg |-> priceOut[ty].msg]
    /\ args' = a
    /\ priceOut' = NoCalls
    /\ greeksOut' = NoCalls
    /\ UNCHANGED ui

vars == <<args, priceOut, greeksOut, earlier, ui>>

\* price and greeks called with one set of arguments.
NextEngine ==
    \/ \E ty \in OptionTypes : CallPrice(ty)
    \/ \E ty \in OptionTypes : CallGreeks(ty)

Spec == InitEngine /\ [][NextEngine]_vars

\* price called with one set of arguments and then another.
NextReject ==
    \/ \E ty \in OptionTypes : CallPrice(ty)
    \/ \E a \in RejectSpace, ty \in OptionTypes : NewArgs(a, ty)

SpecReject == InitReject /\ [][NextReject]_vars
(***************************************************************************)
(* The front-end, src/options_calc.py, and the standalone form             *)
(* calculate_option_price of src/blackscholes.py.  Streamlit runs the      *)
(* script from the top on every interaction: a page run reads the          *)
(* controls, calls the engine and renders.  An exception that leaves the   *)
(* script ends the run ("crashed").                                        *)
(***************************************************************************)

\* Points per axis of a heatmap grid (25 in the source).
GridN == 2

\* Points of the payoff curve.
PayoffPoints == 300

\* numpy.linspace(a, b, n)[i], 0 <= i < n, n >= 2.
linspace(a, b, n, i) ==
    IF i = n - 1 THEN b ELSE a + i * FDivInt(b - a, n - 1)

\* Values the sidebar controls of sidebar_core() permit.
CoreControls ==
    [S : {SCALE, 100 * SCALE}, K : {SCALE, 100 * SCALE},
     T : {Lit(1, 100), SCALE}, r : {0, Lit(5, 100)},
     sigma : {Lit(1, 100), Lit(2, 10)}]

\* Values the controls of the standalone form permit.
FormControls ==
    [S : {Lit(1, 100), SCALE}, K : {Lit(1, 100), SCALE},
     T : {Lit(1, 100), SCALE}, r : {0, Lit(5, 100)},
     sigma : {Lit(1, 100), Lit(2, 10)}]

\* Sidebar values under which the heatmap pages are run.
HeatCore ==
    [S : {SCALE, 100 * SCALE}, K : {100 * SCALE},
     T : {SCALE}, r : {Lit(5, 100)}, sigma : {Lit(2, 10)}]

\* "Min Spot" and "Max Spot" are number inputs without bounds, preset to
\* 0.7 S and 1.3 S; the volatility sliders give whole percents.
MinSpotInputs(S) == {FMul(Lit(7, 10), S), 0, -(10 * SCALE)}
MaxSpotInputs(S) == {FMul(Lit(13, 10), S)}
MinVolInputs == {Lit(1, 100), Lit(10, 100)}
MaxVolInputs == {Lit(40, 100)}

\* One cell of a heatmap: option type, volatility index, spot index.
Cells == RecognizedTypes \X (0 .. GridN - 1) \X (0 .. GridN - 1)

\* Position of a cell in the source's order of evaluation: the call array
\* before the put array, each by rows of one volatility.
RowMajor(cell) ==
    (IF cell[1] = "call" THEN 0 ELSE GridN * GridN) + cell[2] * GridN + cell[3]

\* A cell not yet evaluated, and a cell holding a number.
Blank == [kind |-> "blank"]
Filled(x) == [kind |-> "filled", value |-> x]

\* Mutant: the spot and volatility indices exchanged.
CellCallSwapped(c, cell) ==
    BlackScholes(linspace(c.s_min, c.s_max, GridN, cell[2]), c.K, c.T, c.r,
                 linspace(c.v_min, c.v_max, GridN, cell[3]), cell[1])

\* The engine call of one heatmap cell (lines 251, 256, 303, 308).
CellCall(c, cell) ==
    BlackScholes(linspace(c.s_min, c.s_max, GridN, cell[3]), c.K, c.T, c.r,
                 linspace(c.v_min, c.v_max, GridN, cell[2]), cell[1])

\* What the cell holds: the price, less the purchase price on the P&L page.
CellValue(page, c, cell, price) ==
    IF page = "P&L Heatmaps"
    THEN price - (IF cell[1] = "call" THEN c.call_buy ELSE c.put_buy)
    ELSE price

\* Page 1, lines 36-60.
RunOptionPricer(c, option_type) ==
    /\ ui.status = "idle"
    /\ LET call_price == BlackScholes(c.S, c.K, c.T, c.r, c.sigma, "call")
           put_price == BlackScholes(c.S, c.K, c.T, c.r, c.sigma, "put")
           greeks == calculate_greeks(c.S, c.K, c.T, c.r, c.sigma, option_type)
           base == [page |-> "Option Pricer", ctl |-> c,
                    option_type |-> option_type]
       IN  ui' = IF call_price.kind = "raise"
                 THEN base @@ [status |-> "crashed", error |-> call_price]
                 ELSE IF put_price.kind = "raise"
                 THEN base @@ [status |-> "crashed", error |-> put_price]
                 ELSE IF greeks.kind = "raise"
                 THEN base @@ [status |-> "crashed", error |-> greeks]
                 ELSE base @@ [status |-> "rendered",
                               call_price |-> call_price.value,
                               put_price |-> put_price.value,
                               price |-> IF option_type = "call"
                                         THEN call_price.value
                                         ELSE put_price.value,
                               greeks |-> greeks.value]
    /\ UNCHANGED <<args, priceOut, greeksOut, earlier>>

\* Page 2, lines 208-234.
RunPayoffDiagram(c, option_type) ==
    /\ ui.status = "idle"
    /\ LET premium == BlackScholes(c.S, c.K, c.T, c.r, c.sigma, option_type)
           S_range == [i \in 1 .. PayoffPoints |->
                          linspace(FMul(Lit(5, 10), c.S), FMul(Lit(15, 10), c.S),
                                   PayoffPoints, i - 1)]
           Max0(x) == IF x > 0 THEN x ELSE 0
           payoff == [i \in 1 .. PayoffPoints |->
                         IF option_type = "call" THEN Max0(S_range[i] - c.K)
                         ELSE Max0(c.K - S_range[i])]
           base == [page |-> "Payoff Diagram", ctl |-> c,
                    option_type |-> option_type]
       IN  ui' = IF premium.kind = "raise"
                 THEN base @@ [status |-> "crashed", error |-> premium]
                 ELSE base @@ [status |-> "rendered",
                               premium |-> premium.value,
                               pnl |-> [i \in 1 .. PayoffPoints |->
                                           payoff[i] - premium.value]]
    /\ UNCHANGED <<args, priceOut, greeksOut, earlier>>

\* The standalone form, src/blackscholes.py lines 23-39: the engine is called
\* when the button is pressed, inside try / except ValueError.
RunCalculateOptionPrice(c, option_type, pressed) ==
    /\ ui.status = "idle"
    /\ LET out == BlackScholes(c.S, c.K, c.T, c.r, c.sigma, option_type)
           base == [page |-> "calculate_option_price", ctl |-> c,
                    option_type |-> option_type, pressed |-> pressed]
       IN  ui' = IF ~pressed THEN base @@ [status |-> "rendered"]
                 ELSE IF out.kind = "return"
                 THEN base @@ [status |-> "rendered", success |-> out.value]
                 ELSE IF out.exc = "ValueError"
                 THEN base @@ [status |-> "error_shown", shown |-> out.msg]
                 ELSE base @@ [status |-> "crashed", error |-> out]
    /\ UNCHANGED <<args, priceOut, greeksOut, earlier>>

\* A heatmap page up to the grids: Sensitivity Analysis, lines 238-248, or
\* P&L Heatmaps, lines 281-300, where the purchase prices are preset to the
\* engine's prices (own_buy: the user has typed 5.0 into both instead; the
\* Sensitivity page has no purchase price).  order is the schedule of the
\* cell evaluations that follow: "rowmajor" is the source's nested
\* comprehension, "any" evaluates the cells of an array in any order.
OpenHeatmap(page, core, s_min, s_max, v_min, v_max, own_buy, order) ==
    /\ ui.status = "idle"
    /\ LET call_default == BlackScholes(core.S, core.K, core.T, core.r,
                                        core.sigma, "call")
           put_default == BlackScholes(core.S, core.K, core.T, core.r,
                                       core.sigma, "put")
           c == core @@ [s_min |-> s_min, s_max |-> s_max,
                         v_min |-> v_min, v_max |-> v_max,
                         call_buy |-> IF page # "P&L Heatmaps" THEN 0
                                      ELSE IF own_buy THEN 5 * SCALE
                                      ELSE call_default.value,
                         put_buy |-> IF page # "P&L Heatmaps" THEN 0
                                     ELSE IF own_buy THEN 5 * SCALE
                                     ELSE put_default.value]
           base == [page |-> page, ctl |-> c, order |-> order,
                    grid |-> [cell \in Cells |-> Blank],
                    calls |-> [cell \in Cells |-> 0]]
       IN  ui' = IF page = "P&L Heatmaps" /\ call_default.kind = "raise"
                 THEN base @@ [status |-> "crashed", error |-> call_default]
                 ELSE IF page = "P&L Heatmaps" /\ put_default.kind = "raise"
                 THEN base @@ [status |-> "crashed", error |-> put_default]
                 ELSE base @@ [status |-> "running"]
    /\ UNCHANGED <<args, priceOut, greeksOut, earlier>>

\* The cells a running heatmap may evaluate next.
NextCells ==
    LET blank == {cell \in Cells : ui.grid[cell] = Blank}
        first == {cell \in blank : \A other \in blank : RowMajor(cell) <= RowMajor(other)}
    IN  IF ui.order = "rowmajor" THEN first
        ELSE IF \E cell \in blank : cell[1] = "call"
        THEN {cell \in blank : cell[1] = "call"}
        ELSE blank

\* One cell of call_vals / put_vals (lines 250-258) or call_pnl / put_pnl
\* (lines 302-310).  A ValueError of the engine is not caught.
HeatmapCell(cell) ==
    /\ ui.status = "running"
    /\ cell \in NextCells
    /\ LET out == CellCall(ui.ctl, cell)
           counted == [ui EXCEPT !.calls[cell] = @ + 1]
       IN  ui' = IF out.kind = "raise"
                 THEN [status |-> "crashed", error |-> out] @@ counted
                 ELSE [counted EXCEPT
                          !.grid[cell] =
                              Filled(CellValue(ui.page, ui.ctl, cell, out.value))]
    /\ UNCHANGED <<args, priceOut, greeksOut, earlier>>

\* The figure, lines 260-276 and 312-328, once both arrays are complete.
RenderHeatmap ==
    /\ ui.status = "running"
    /\ \A cell \in Cells : ui.grid[cell] # Blank
    /\ ui' = [ui EXCEPT !.status = "rendered"]
    /\ UNCHANGED <<args, priceOut, greeksOut, earlier>>

\* The user changes a control: the script runs again from the top.
Rerun ==
    /\ ui.status \in {"rendered", "error_shown", "crashed"}
    /\ ui' = UiIdle
    /\ UNCHANGED <<args, priceOut, greeksOut, earlier>>

InitUI ==
    /\ args = [S |-> 0, K |-> 0, T |-> 0, r |-> 0, sigma |-> 0]
    /\ priceOut = NoCalls
    /\ greeksOut = NoCalls
    /\ earlier = NoCall
    /\ ui = UiIdle

NextUI ==
    \/ \E c \in CoreControls, ty \in RecognizedTypes : RunOptionPricer(c, ty)
    \/ \E c \in CoreControls, ty \in RecognizedTypes : RunPayoffDiagram(c, ty)
    \/ \E c \in FormControls, ty \in RecognizedTypes, pressed \in BOOLEAN :
          RunCalculateOptionPrice(c, ty, pressed)
    \/ \E page \in {"Sensitivity Analysis", "P&L Heatmaps"}, core \in HeatCore,
          v_min \in MinVolInputs, v_max \in MaxVolInputs,
          own_buy \in BOOLEAN, order \in {"rowmajor", "any"} :
          \E s_min \in MinSpotInputs(core.S), s_max \in MaxSpotInputs(core.S) :
              /\ (page = "Sensitivity Analysis" => ~own_buy)
              /\ OpenHeatmap(page, core, s_min, s_max, v_min, v_max, own_buy, order)
    \/ \E cell \in Cells : HeatmapCell(cell)
    \/ RenderHeatmap
    \/ Rerun

SpecUI == InitUI /\ [][NextUI]_vars

(***************************************************************************)
(* Claims about the engine.                                                *)
(***************************************************************************)

Called(out) == out # NoCall
Returned(out) == out.kind = "return"

\* The rejection the specification calls InvalidParameter: a ValueError raised
\* by the validation, before any formula step.
Rejected(out) ==
    /\ out.kind = "raise"
    /\ out.exc = "ValueError"
    /\ out.at = "validation"
    /\ out.steps = <<>>

\* C1: price rejects every input with spot, strike, volatility or time to
\* expiry <= 0 or an unrecognized option type with InvalidParameter, having
\* evaluated no formula step, and returns a price only when all four numbers
\* are > 0 and the option type is recognized.
C1_PriceValidates ==
    \A ty \in OptionTypes :
        Called(priceOut[ty]) =>
            /\ ~Valid(args, ty) => Rejected(priceOut[ty])
            /\ Returned(priceOut[ty]) =>
                  /\ args.S > 0 /\ args.K > 0 /\ args.sigma > 0 /\ args.T > 0
                  /\ ty \in RecognizedTypes
                  /\ priceOut[ty].steps = <<"d1", "d2", "price">>

C1_Witness ==
    /\ Rejected(priceOut["invalid"])
    /\ Returned(priceOut["call"])
    /\ Returned(priceOut["put"])

\* C2: greeks rejects every input with spot, strike, time to expiry or
\* volatility <= 0 or an unrecognized option type with InvalidParameter before
\* any formula evaluation, and returns no Greek values for it.
C2_GreeksValidates ==
    \A ty \in OptionTypes :
        (Called(greeksOut[ty]) /\ ~Valid(args, ty)) => Rejected(greeksOut[ty])

\* Both rejections violate a single constraint, and not the same one.
SingleDistinct(ty) ==
    /\ earlier.kind = "rejected"
    /\ Called(priceOut[ty])
    /\ Cardinality(earlier.violated) = 1
    /\ Cardinality(Violated(args, ty)) = 1
    /\ earlier.violated # Violated(args, ty)

\* C3 as stated: two inputs that price rejects, violating different single
\* constraints, are rejected with distinguishable reasons.
C3_ReasonIdentifiesConstraint ==
    \A ty \in OptionTypes :
        SingleDistinct(ty) =>
            /\ Rejected(priceOut[ty])
            /\ priceOut[ty].msg # earlier.msg

\* C3 amended: the reason tells a number that is not positive from an
\* unrecognized option type, and no more.  Two inputs that violate different
\* single constraints are both rejected with a ValueError; their reasons
\* differ exactly when one of the two constraints is the option type, and
\* spot, strike, volatility and time to expiry share one reason.
C3_ReasonTellsNumberFromType ==
    \A ty \in OptionTypes :
        SingleDistinct(ty) =>
            /\ Rejected(priceOut[ty])
            /\ earlier.exc = "ValueError"
            /\ (priceOut[ty].msg # earlier.msg)
                  <=> ("type" \in earlier.violated \cup Violated(args, ty))

C3_Witness ==
    /\ earlier.kind = "rejected"
    /\ earlier.violated = {"type"}
    /\ Rejected(priceOut["call"])
    /\ Violated(args, "call") = {"strike"}
    /\ Rejected(priceOut["invalid"])

\* C4: no rejection by the engine leaves a page run uncaught.
C4_NoUncaughtRejection == ui.status # "crashed"

\* The heatmap pages.
HeatmapPages == {"Sensitivity Analysis", "P&L Heatmaps"}

\* The number a heatmap cell is to hold: the engine's price at the cell's
\* spot and volatility, less the purchase price on the P&L page.
CellExpected(page, c, ty, vi, si) ==
    BlackScholes(c.s_min + (IF si = GridN - 1 THEN c.s_max - c.s_min
                            ELSE si * FDivInt(c.s_max - c.s_min, GridN - 1)),
                 c.K, c.T, c.r,
                 c.v_min + (IF vi = GridN - 1 THEN c.v_max - c.v_min
                            ELSE vi * FDivInt(c.v_max - c.v_min, GridN - 1)),
                 ty).value
    - (IF page = "P&L Heatmaps"
       THEN (IF ty = "call" THEN c.call_buy ELSE c.put_buy)
       ELSE 0)

\* C10: the engine is invoked at most once per cell and option type; a cell
\* that is filled holds the engine's price for its spot and volatility (less
\* the purchase price on the P&L page) and was invoked once; a rendered
\* heatmap has every cell filled, whether the cells were evaluated in the
\* source's order or in any other.
C10_HeatmapGrid ==
    ui.page \in HeatmapPages =>
        \A ty \in RecognizedTypes, vi \in 0 .. GridN - 1, si \in 0 .. GridN - 1 :
            /\ ui.calls[<<ty, vi, si>>] <= 1
            /\ ui.status = "rendered" => ui.grid[<<ty, vi, si>>] # Blank
            /\ ui.grid[<<ty, vi, si>>] # Blank =>
                  /\ ui.calls[<<ty, vi, si>>] = 1
                  /\ ui.grid[<<ty, vi, si>>]
                        = Filled(CellExpected(ui.page, ui.ctl, ty, vi, si))

C10_Witness ==
    /\ ui.page = "P&L Heatmaps"
    /\ ui.status = "rendered"
    /\ ui.order = "any"
    /\ ui.ctl.call_buy = 5 * SCALE
    /\ \E si \in 0 .. GridN - 1 :
          ui.grid[<<"call", 0, si>>] # ui.grid[<<"call", GridN - 1, si>>]
    /\ \E vi \in 0 .. GridN - 1 :
          ui.grid[<<"put", vi, 0>>] # ui.grid[<<"put", vi, GridN - 1>>]

\* The Greeks of the specification's table, from d1 and d2.
TableGreeks(a, ty, d1, d2) ==
    LET disc == exp(-FMul(a.r, a.T))
        decay == FDiv(FMul(FMul(-a.S, norm_pdf(d1)), a.sigma), 2 * sqrt(a.T))
    IN  [delta |-> IF ty = "call" THEN norm_cdf(d1) ELSE norm_cdf(d1) - SCALE,
         gamma |-> FDiv(norm_pdf(d1), FMul(FMul(a.S, a.sigma), sqrt(a.T))),
         vega  |-> FDivInt(FMul(FMul(a.S, norm_pdf(d1)), sqrt(a.T)), 100),
         theta |-> IF ty = "call"
                   THEN FDivInt(decay - FMul(FMul(FMul(a.r, a.K), disc),
                                             norm_cdf(d2)), 365)
                   ELSE FDivInt(decay + FMul(FMul(FMul(a.r, a.K), disc),
                                             norm_cdf(-d2)), 365),
         rho   |-> IF ty = "call"
                   THEN FDivInt(FMul(FMul(FMul(a.K, a.T), disc), norm_cdf(d2)), 100)
                   ELSE FDivInt(FMul(FMul(FMul(-a.K, a.T), disc), norm_cdf(-d2)), 100)]

\* C5: for valid parameters greeks returns exactly the keys delta, gamma,
\* vega, theta and rho, computed from the d1 and d2 that price computes for
\* the same parameters, with the formulas and scalings of the table.
C5_GreeksFromPriceD1D2 ==
    \A ty \in RecognizedTypes :
        (Valid(args, ty) /\ Called(greeksOut[ty]) /\ Called(priceOut[ty])) =>
            /\ Returned(greeksOut[ty])
            /\ DOMAIN greeksOut[ty].value
                  = {"delta", "gamma", "vega", "theta", "rho"}
            /\ greeksOut[ty].d1 = priceOut[ty].d1
            /\ greeksOut[ty].d2 = priceOut[ty].d2
            /\ greeksOut[ty].value
                  = TableGreeks(args, ty, priceOut[ty].d1, priceOut[ty].d2)

C5_Witness ==
    /\ Valid(args, "put")
    /\ Returned(greeksOut["put"]) /\ Returned(priceOut["put"])
    /\ Returned(greeksOut["call"]) /\ Returned(priceOut["call"])
    /\ greeksOut["call"].value.theta < 0
    /\ greeksOut["put"].value.rho < 0
    /\ greeksOut["call"].value.vega > 0

\* C6: put-call parity.  For valid parameters price(call) - price(put) equals
\* S - K e^(-rT) up to rounding: each side of the difference sums two rounded
\* products, half a unit of error each.
C6_PutCallParity ==
    (Returned(priceOut["call"]) /\ Returned(priceOut["put"])) =>
        Abs((priceOut["call"].value - priceOut["put"].value)
            - (args.S - FMul(args.K, exp(-FMul(args.r, args.T))))) <= 2

C6_Witness ==
    /\ Returned(priceOut["call"]) /\ Returned(priceOut["put"])
    /\ priceOut["call"].value > 0 /\ priceOut["put"].value > 0
    /\ priceOut["call"].value # priceOut["put"].value
    /\ args.r # 0

\* C7: for identical parameters greeks returns the same gamma and the same
\* vega for a call and for a put.
C7_GammaVegaSymmetry ==
    (Returned(greeksOut["call"]) /\ Returned(greeksOut["put"])) =>
        /\ greeksOut["call"].value.gamma = greeksOut["put"].value.gamma
        /\ greeksOut["call"].value.vega = greeksOut["put"].value.vega

C7_Witness ==
    /\ Valid(args, "call")
    /\ Returned(greeksOut["call"]) /\ Returned(greeksOut["put"])
    /\ greeksOut["call"].value.gamma > 0
    /\ greeksOut["call"].value.vega > 0
    /\ greeksOut["call"].value.delta # greeksOut["put"].value.delta

\* C8: for valid parameters the delta of a call lies in [0, 1], the delta of
\* a put in [-1, 0], and gamma and vega are >= 0.
C8_GreekBounds ==
    \A ty \in RecognizedTypes :
        (Valid(args, ty) /\ Called(greeksOut[ty])) =>
            /\ Returned(greeksOut[ty])
            /\ ty = "call" => greeksOut[ty].value.delta \in 0..SCALE
            /\ ty = "put" => greeksOut[ty].value.delta \in (-SCALE)..0
            /\ greeksOut[ty].value.gamma >= 0
            /\ greeksOut[ty].value.vega >= 0

C8_Witness ==
    /\ Valid(args, "call")
    /\ Returned(greeksOut["call"]) /\ Returned(greeksOut["put"])
    /\ greeksOut["call"].value.delta \in 1..(SCALE - 1)
    /\ greeksOut["put"].value.delta \in (1 - SCALE)..(-1)
    /\ greeksOut["put"].value.gamma > 0
====
